---- MODULE Spec2Model ----
(***************************************************************************)
(* Model of src/app.py, the GRE vocabulary flash-card application.         *)
(*                                                                         *)
(* The application is a Streamlit script: every user interaction (a radio  *)
(* change or a button press) runs main() once more against the session     *)
(* state that survives between runs.  One action of this model is one      *)
(* interaction handled to the end: the handler of the pressed widget, the  *)
(* st.rerun() it may request, and the page the last run leaves on screen.  *)
(*                                                                         *)
(* Word objects are modelled by value (records of their six fields).       *)
(***************************************************************************)
EXTENDS Naturals, Sequences, FiniteSets

VARIABLES
    vocabulary_list,    \* st.session_state.vocabulary_list: sequence of Word
    current_card,       \* st.session_state.current_card: None or a VocabularyCard
    vocabulary_loaded,  \* st.session_state.vocabulary_loaded
    data_source,        \* value of the sidebar radio (widget state)
    clicked,            \* the widget whose interaction started the last script run
    word,               \* value get_random_word returned in the last interaction (local
                        \* of line 348), None when it was not called
    df,                 \* DataFrame fetched in the last interaction (local of line 224),
                        \* None when nothing was fetched
    load_ret,           \* outcome of load_vocabulary_from_sheet in the last interaction:
                        \* "True", "False", "raised", or "None" when it was not called
    exception,          \* uncaught exception that ended the last script run, or "None"
    page,               \* what the last script run left on screen
    flip_parity         \* history: parity of the flips handled since the card was drawn

vars == <<vocabulary_list, current_card, vocabulary_loaded, data_source, clicked,
          word, df, load_ret, exception, page, flip_parity>>

-----------------------------------------------------------------------------
(* Bounds of the model *)

\* Largest number of records a fetch of the sheet returns.
MaxRows == 2

-----------------------------------------------------------------------------
(* Python values *)

None == [none |-> TRUE]

\* The six attributes of a Word, which are also the six keys read from a row.
WordFields == {"word", "explanation", "related_words", "pos", "usage", "sentence"}

\* Word.__init__
Word(w, explanation, related_words, pos, usage, sentence) ==
    [word |-> w, explanation |-> explanation, related_words |-> related_words,
     pos |-> pos, usage |-> usage, sentence |-> sentence]

\* The literal list built by load_sample_vocabulary (the Chinese texts are
\* written as ASCII tags).
sample_data ==
    << Word("aberrant", "zh:aberrant", "deviant, abnormal, atypical", "adj.",
            "zh-usage:aberrant", "His aberrant behavior worried his friends."),
       Word("abate", "zh:abate", "diminish, subside, decrease", "v.",
            "zh-usage:abate", "The storm began to abate after midnight."),
       Word("abscond", "zh:abscond", "flee, escape, run away", "v.",
            "zh-usage:abscond", "The thief absconded with the jewelry."),
       Word("abstemious", "zh:abstemious", "temperate, moderate, restrained", "adj.",
            "zh-usage:abstemious", "Despite his wealth, he lived an abstemious lifestyle."),
       Word("admonish", "zh:admonish", "warn, caution, reprove", "v.",
            "zh-usage:admonish",
            "The teacher admonished the students for talking during the exam.") >>

-----------------------------------------------------------------------------
(* The spreadsheet: what the environment can hand to the connector *)

\* Contents of sheet rows: one repeats a sample word, one is new.
SheetWords ==
    { [word |-> "abate", explanation |-> "zh:abate",
       related_words |-> "diminish, subside, decrease", pos |-> "v.",
       usage |-> "zh-usage:abate", sentence |-> "The storm began to abate after midnight."],
      [word |-> "zeal", explanation |-> "zh:zeal",
       related_words |-> "ardor, fervor", pos |-> "n.",
       usage |-> "zh-usage:zeal", sentence |-> "She worked with zeal."] }

\* Header rows a sheet may have: the six columns, the six and one more, and
\* headers that lack one of the six.
SheetHeaders ==
    { WordFields, WordFields \cup {"note"},
      WordFields \ {"sentence"}, WordFields \ {"word"} }

\* One record of get_all_records(): a dict keyed by the header row.
SheetRecord(header, content) ==
    [c \in header |-> IF c \in WordFields THEN content[c] ELSE "extra"]

SeqsUpTo(S, n) == UNION {[1..k -> S] : k \in 0..n}

\* Every value get_all_records() returns in this model: all records of one
\* sheet share the header.
SheetContents ==
    { [i \in DOMAIN rows |-> SheetRecord(h, rows[i])] :
        h \in SheetHeaders, rows \in SeqsUpTo(SheetWords, MaxRows) }

\* What the outside world does during one load: whether the credentials are
\* accepted, whether the sheet opens, whether get_all_records raises, and the
\* records it returns (none when a step before it fails).
Environments ==
    { [cred_ok |-> FALSE, conn_ok |-> FALSE, fetch_ok |-> FALSE, records |-> <<>>],
      [cred_ok |-> TRUE, conn_ok |-> FALSE, fetch_ok |-> FALSE, records |-> <<>>],
      [cred_ok |-> TRUE, conn_ok |-> TRUE, fetch_ok |-> FALSE, records |-> <<>>] }
    \cup [cred_ok : {TRUE}, conn_ok : {TRUE}, fetch_ok : {TRUE}, records : SheetContents]

\* pd.DataFrame(data) for a list of dicts; pd.DataFrame() is DataFrame(<<>>).
DataFrame(records) ==
    [columns |-> IF records = <<>> THEN {} ELSE DOMAIN records[1],
     rows |-> records]

\* An emptiness test that never finds the DataFrame empty.
df_empty_never(d) == FALSE

\* DataFrame.empty
df_empty(d) == d.rows = <<>> \/ d.columns = {}

-----------------------------------------------------------------------------
(* GoogleSheetConnector *)

\* setup_credentials_from_secrets: True, or False with st.error shown.
setup_credentials_from_secrets(env) ==
    [ret |-> env.cred_ok,
     messages |-> IF env.cred_ok THEN {} ELSE {"error_credentials"}]

\* connect_sheet: True, or False with st.error shown.
connect_sheet(env) ==
    [ret |-> env.conn_ok,
     messages |-> IF env.conn_ok THEN {} ELSE {"error_connect"}]

\* fetch_vocabulary_data: the records as a DataFrame, or an empty DataFrame
\* with st.error shown when get_all_records raises.
fetch_vocabulary_data(env) ==
    IF env.fetch_ok
    THEN [df |-> DataFrame(env.records), messages |-> {}]
    ELSE [df |-> DataFrame(<<>>), messages |-> {"error_fetch"}]

-----------------------------------------------------------------------------
(* VocabularyCard *)

\* A card that is created showing its back.
VocabularyCard_flipped(w) == [word |-> w, is_flipped |-> TRUE]

\* VocabularyCard.__init__
VocabularyCard(w) == [word |-> w, is_flipped |-> FALSE]

\* A flip that sets the flag instead of negating it.
flip_card_stuck(card) == [card EXCEPT !.is_flipped = TRUE]

\* A flip that does what reset_card does.
flip_card_reset(card) == [card EXCEPT !.is_flipped = FALSE]

\* VocabularyCard.flip_card
flip_card(card) == [card EXCEPT !.is_flipped = ~card.is_flipped]

-----------------------------------------------------------------------------
(* VocabularyManager *)

\* The list comprehension of lines 226-235: for a row, row[k] raises KeyError
\* when the DataFrame has no column k, and then no list is built.
words_of_rows(d) ==
    IF d.rows = <<>> \/ WordFields \subseteq d.columns
    THEN [raised |-> "None",
          words |-> [i \in DOMAIN d.rows |->
                        Word(d.rows[i]["word"], d.rows[i]["explanation"],
                             d.rows[i]["related_words"], d.rows[i]["pos"],
                             d.rows[i]["usage"], d.rows[i]["sentence"])]]
    ELSE [raised |-> "KeyError", words |-> <<>>]

\* A load that empties the list before it fetches, so that a fetch of no
\* records leaves the session with no words.
load_vocabulary_from_sheet_clears(list, env) ==
    LET cred == setup_credentials_from_secrets(env)
        conn == connect_sheet(env)
        fetch == fetch_vocabulary_data(env)
        built == words_of_rows(fetch.df)
    IN  IF ~cred.ret
        THEN [vocabulary_list |-> list, ret |-> "False", df |-> None,
              raised |-> "None", messages |-> cred.messages]
        ELSE IF ~conn.ret
        THEN [vocabulary_list |-> list, ret |-> "False", df |-> None,
              raised |-> "None", messages |-> conn.messages]
        ELSE IF df_empty(fetch.df)
        THEN [vocabulary_list |-> <<>>, ret |-> "False", df |-> fetch.df,
              raised |-> "None", messages |-> fetch.messages]
        ELSE IF built.raised # "None"
        THEN [vocabulary_list |-> <<>>, ret |-> "raised", df |-> fetch.df,
              raised |-> built.raised, messages |-> fetch.messages]
        ELSE [vocabulary_list |-> built.words, ret |-> "True", df |-> fetch.df,
              raised |-> "None", messages |-> fetch.messages]

\* load_vocabulary_from_sheet, called with vocabulary_list = list.  The
\* result holds the list the session is left with, the value returned ("True",
\* "False", or "raised" when an exception leaves the method), the DataFrame
\* fetched (None when the fetch is not reached) and the messages shown.
load_vocabulary_from_sheet(list, env) ==
    LET cred == setup_credentials_from_secrets(env)
        conn == connect_sheet(env)
        fetch == fetch_vocabulary_data(env)
        built == words_of_rows(fetch.df)
    IN  IF ~cred.ret
        THEN [vocabulary_list |-> list, ret |-> "False", df |-> None,
              raised |-> "None", messages |-> cred.messages]
        ELSE IF ~conn.ret
        THEN [vocabulary_list |-> list, ret |-> "False", df |-> None,
              raised |-> "None", messages |-> conn.messages]
        ELSE IF df_empty(fetch.df)
        THEN [vocabulary_list |-> list, ret |-> "False", df |-> fetch.df,
              raised |-> "None", messages |-> fetch.messages]
        ELSE IF built.raised # "None"
        THEN [vocabulary_list |-> list, ret |-> "raised", df |-> fetch.df,
              raised |-> built.raised, messages |-> fetch.messages]
        ELSE [vocabulary_list |-> built.words, ret |-> "True", df |-> fetch.df,
              raised |-> "None", messages |-> fetch.messages]

\* load_sample_vocabulary: the list the session is left with.
load_sample_vocabulary == sample_data

\* A draw from the sample list whatever the session holds.
get_random_word_sample(list) ==
    IF list # <<>> THEN {sample_data[i] : i \in DOMAIN sample_data} ELSE {None}

\* get_random_word: the values random.choice may return for this list.
get_random_word(list) ==
    IF list # <<>> THEN {list[i] : i \in DOMAIN list} ELSE {None}

\* create_new_card
create_new_card(w) == VocabularyCard(w)

-----------------------------------------------------------------------------
(* GREVocabularyApp: what one script run renders *)

\* render_setup_section, widgets: the button under the selected radio option.
render_setup_section(source) ==
    IF source = "sample" THEN {"load_sample"} ELSE {"connect_sheet"}

\* render_vocabulary_card with no button pressed: the flip button and one side
\* of the card.  Reading card.is_flipped of None raises AttributeError.
render_vocabulary_card(card) ==
    IF card = None
    THEN [buttons |-> {}, side |-> "none", entry |-> None, raised |-> "AttributeError"]
    ELSE [buttons |-> {"flip_card"},
          side |-> IF ~card.is_flipped THEN "front" ELSE "back",
          entry |-> card.word, raised |-> "None"]

\* The card is rendered without the test of line 354.
card_is_shown_always(card) == TRUE

\* The test of line 354 that guards render_vocabulary_card.
card_is_shown(card) == card # None

\* render_study_section with no button pressed.
render_study_section(loaded, list, card) ==
    IF ~loaded
    THEN [study |-> "info_not_loaded", buttons |-> {}, side |-> "none",
          entry |-> None, raised |-> "None"]
    ELSE IF list = <<>>
    THEN [study |-> "error_no_vocabulary", buttons |-> {}, side |-> "none",
          entry |-> None, raised |-> "None"]
    ELSE IF card_is_shown(card)
    THEN LET c == render_vocabulary_card(card)
         IN  [study |-> "study", buttons |-> {"random_word"} \cup c.buttons,
              side |-> c.side, entry |-> c.entry, raised |-> c.raised]
    ELSE [study |-> "study", buttons |-> {"random_word"}, side |-> "none",
          entry |-> None, raised |-> "None"]

\* run(): the page and the uncaught exception of a script run whose handlers
\* left the session as given; setup_raised is the exception that left
\* render_setup_section, after which nothing below it is rendered.
run(source, loaded, list, card, setup_messages, setup_raised) ==
    LET study == render_study_section(loaded, list, card)
    IN  IF setup_raised # "None"
        THEN [page |-> [buttons |-> render_setup_section(source), study |-> "aborted",
                        side |-> "none", entry |-> None,
                        messages |-> setup_messages \cup {"exception"}],
              exception |-> setup_raised]
        ELSE [page |-> [buttons |-> render_setup_section(source) \cup study.buttons,
                        study |-> study.study, side |-> study.side, entry |-> study.entry,
                        messages |-> setup_messages \cup
                                     (IF study.raised # "None" THEN {"exception"} ELSE {})],
              exception |-> study.raised]

-----------------------------------------------------------------------------
(* The session *)

\* The first script run: init_session_state fills the empty session, the radio
\* shows its first option, and the page is rendered with nothing pressed.
Init ==
    /\ vocabulary_list = <<>>
    /\ current_card = None
    /\ vocabulary_loaded = FALSE
    /\ data_source = "sample"
    /\ clicked = "None"
    /\ word = None
    /\ df = None
    /\ load_ret = "None"
    /\ exception = "None"
    /\ page = run("sample", FALSE, <<>>, None, {}, "None").page
    /\ flip_parity = 0

\* The user changes (or re-selects) the radio: a script run with no button
\* pressed.
SelectDataSource ==
    \E source \in {"sample", "sheet"} :
        LET r == run(source, vocabulary_loaded, vocabulary_list, current_card, {}, "None")
        IN  /\ data_source' = source
            /\ clicked' = "data_source"
            /\ page' = r.page
            /\ exception' = r.exception
            /\ word' = None
            /\ df' = None
            /\ load_ret' = "None"
            /\ UNCHANGED <<vocabulary_list, current_card, vocabulary_loaded, flip_parity>>

\* A load of the sample words that also puts the card away.
ClickLoadSample_drops_card ==
    /\ "load_sample" \in page.buttons
    /\ LET r == run(data_source, TRUE, load_sample_vocabulary, None,
                    {"success_sample"}, "None")
       IN  /\ vocabulary_list' = load_sample_vocabulary
           /\ vocabulary_loaded' = TRUE
           /\ current_card' = None
           /\ clicked' = "load_sample"
           /\ page' = r.page
           /\ exception' = r.exception
    /\ word' = None
    /\ df' = None
    /\ load_ret' = "None"
    /\ UNCHANGED <<data_source, flip_parity>>

\* The "load_sample" button (lines 301-304).
ClickLoadSample ==
    /\ "load_sample" \in page.buttons
    /\ LET r == run(data_source, TRUE, load_sample_vocabulary, current_card,
                    {"success_sample"}, "None")
       IN  /\ vocabulary_list' = load_sample_vocabulary
           /\ vocabulary_loaded' = TRUE
           /\ clicked' = "load_sample"
           /\ page' = r.page
           /\ exception' = r.exception
    /\ word' = None
    /\ df' = None
    /\ load_ret' = "None"
    /\ UNCHANGED <<current_card, data_source, flip_parity>>

\* The "connect_sheet" button (lines 312-319); sheet_url is a non-empty
\* literal, so the branch of line 320 is never taken.
ClickConnectSheet ==
    /\ "connect_sheet" \in page.buttons
    /\ \E env \in Environments :
        LET l == load_vocabulary_from_sheet(vocabulary_list, env)
            loaded == IF l.ret = "True" THEN TRUE ELSE vocabulary_loaded
            shown == l.messages \cup
                     (CASE l.ret = "True" -> {"success_sheet"}
                        [] l.ret = "False" -> {"error_sheet"}
                        [] OTHER -> {})
            r == run(data_source, loaded, l.vocabulary_list, current_card, shown, l.raised)
        IN  /\ vocabulary_list' = l.vocabulary_list
            /\ vocabulary_loaded' = loaded
            /\ df' = l.df
            /\ load_ret' = l.ret
            /\ clicked' = "connect_sheet"
            /\ page' = r.page
            /\ exception' = r.exception
    /\ word' = None
    /\ UNCHANGED <<current_card, data_source, flip_parity>>

\* The "random_word" button (lines 347-351): a drawn word replaces the card
\* and st.rerun() renders the page again.
ClickRandomWord ==
    /\ "random_word" \in page.buttons
    /\ \E w \in get_random_word(vocabulary_list) :
        LET card == IF w # None THEN create_new_card(w) ELSE current_card
            r == run(data_source, vocabulary_loaded, vocabulary_list, card, {}, "None")
        IN  /\ word' = w
            /\ current_card' = card
            /\ flip_parity' = IF w # None THEN 0 ELSE flip_parity
            /\ clicked' = "random_word"
            /\ page' = r.page
            /\ exception' = r.exception
    /\ df' = None
    /\ load_ret' = "None"
    /\ UNCHANGED <<vocabulary_list, vocabulary_loaded, data_source>>

\* The "flip_card" button (lines 359-367): the card of the session is flipped
\* and st.rerun() renders the page again.
ClickFlipCard ==
    /\ "flip_card" \in page.buttons
    /\ LET card == flip_card(current_card)
           r == run(data_source, vocabulary_loaded, vocabulary_list, card, {}, "None")
       IN  /\ current_card' = card
           /\ page' = r.page
           /\ exception' = r.exception
    /\ flip_parity' = 1 - flip_parity
    /\ clicked' = "flip_card"
    /\ word' = None
    /\ df' = None
    /\ load_ret' = "None"
    /\ UNCHANGED <<vocabulary_list, vocabulary_loaded, data_source>>

Next ==
    \/ SelectDataSource
    \/ ClickLoadSample
    \/ ClickConnectSheet
    \/ ClickRandomWord
    \/ ClickFlipCard

Spec == Init /\ [][Next]_vars

-----------------------------------------------------------------------------
(* Properties *)

\* C1 (load atomicity): a load from the sheet that does not succeed (the
\* credentials, the connection or the fetch fail, or no record is fetched)
\* leaves vocabulary_list as it was; one that succeeds leaves exactly one
\* Word per fetched record, in order, with the six values of that record, so
\* nothing of the previous list remains unless the sheet supplied it.
C1_LoadAtomicity ==
    [][clicked' = "connect_sheet" =>
         /\ load_ret' \in {"True", "False", "raised"}
         /\ (load_ret' # "True") => (vocabulary_list' = vocabulary_list)
         /\ (df' = None \/ df'.rows = <<>>) => (load_ret' = "False")
         /\ (load_ret' = "True") =>
              /\ df' # None
              /\ Len(vocabulary_list') = Len(df'.rows)
              /\ \A i \in 1..Len(df'.rows) :
                    /\ DOMAIN vocabulary_list'[i] = WordFields
                    /\ \A f \in WordFields : vocabulary_list'[i][f] = df'.rows[i][f]
      ]_vars

\* A successful load from the sheet has replaced the sample list: the card
\* drawn from the sample list shows a word the new list does not have.
C1_Witness ==
    /\ clicked = "connect_sheet"
    /\ load_ret = "True"
    /\ current_card # None
    /\ \A i \in DOMAIN vocabulary_list : vocabulary_list[i] # current_card.word
    /\ \E i \in DOMAIN sample_data : sample_data[i] = current_card.word

\* C2 (draw resets flip): right after a draw the current card holds the word
\* that was drawn, its is_flipped is false and the page shows its front,
\* whatever the card was before.
C2_DrawResetsFlip ==
    [][clicked' = "random_word" =>
         /\ word' # None
         /\ current_card' # None
         /\ current_card'.word = word'
         /\ current_card'.is_flipped = FALSE
         /\ page'.side = "front"
         /\ page'.entry = word'
      ]_vars

\* A draw has just been handled and its card lies on the front.
C2_Witness ==
    /\ clicked = "random_word"
    /\ current_card # None
    /\ current_card.word = word
    /\ ~current_card.is_flipped

\* C3 (pick-random domain): in every reachable state get_random_word can only
\* return None when vocabulary_list is empty and only (and at least one)
\* element of vocabulary_list otherwise; the word a draw returns is an element
\* of the list the session holds at that draw, and the draw leaves the list
\* alone.
C3_PickRandomDomain ==
    /\ [](LET r == get_random_word(vocabulary_list)
          IN  IF vocabulary_list = <<>>
              THEN r = {None}
              ELSE /\ r # {}
                   /\ \A w \in r : \E i \in 1..Len(vocabulary_list) : vocabulary_list[i] = w)
    /\ [][clicked' = "random_word" =>
            /\ \E i \in 1..Len(vocabulary_list) : vocabulary_list[i] = word'
            /\ vocabulary_list' = vocabulary_list
         ]_vars

\* A draw made after the sheet replaced the list returned a word that only the
\* sheet has.
C3_Witness ==
    /\ clicked = "random_word"
    /\ word # None
    /\ word.word = "zeal"
    /\ \E i \in 1..Len(vocabulary_list) : vocabulary_list[i] = word

\* C4 (flip is an involution): flipping any reachable card twice gives the
\* card back, entry and side; and a card that has been flipped an even number
\* of times since it was drawn lies on the side it was drawn on, the front.
C4_FlipInvolution ==
    current_card # None =>
        /\ flip_card(flip_card(current_card)) = current_card
        /\ flip_card(current_card).word = current_card.word
        /\ flip_card(current_card).is_flipped # current_card.is_flipped
        /\ current_card.is_flipped = (flip_parity = 1)

\* Load sample, draw the first sample word, flip, flip: the front of that
\* word is shown.
C4_Witness ==
    /\ vocabulary_list = sample_data
    /\ clicked = "flip_card"
    /\ flip_parity = 0
    /\ current_card = [word |-> sample_data[1], is_flipped |-> FALSE]
    /\ page.side = "front"
    /\ page.entry = sample_data[1]

\* C5 (empty flip): while no card has been drawn the page offers no flip
\* button and shows no card, no script run ends in the AttributeError that
\* reading a missing card raises, a flip is only ever handled for a present
\* card, and only a draw ends the absence of the card.
C5_EmptyFlip ==
    /\ []((current_card = None) =>
            ("flip_card" \notin page.buttons /\ page.side = "none"))
    /\ [](exception # "AttributeError")
    /\ [][clicked' = "flip_card" => (current_card # None /\ current_card' # None)]_vars
    /\ [][(current_card = None /\ clicked' # "random_word") => current_card' = None]_vars

\* The study section is rendered with words to draw and no card: only the
\* draw button is offered.
C5_Witness ==
    /\ current_card = None
    /\ vocabulary_loaded
    /\ page.study = "study"
    /\ "random_word" \in page.buttons
    /\ "flip_card" \notin page.buttons

\* C6 (every load failure is reported and recoverable), as claimed: a load
\* from the sheet that does not succeed returned False, its error message is
\* on the page, the script run ended without an uncaught exception, and the
\* load, draw and flip commands are on the page as far as the session allows.
C6_FailureReported ==
    (clicked = "connect_sheet" /\ load_ret # "True") =>
        /\ load_ret = "False"
        /\ "error_sheet" \in page.messages
        /\ exception = "None"
        /\ "connect_sheet" \in page.buttons
        /\ vocabulary_loaded => "random_word" \in page.buttons
        /\ current_card # None => "flip_card" \in page.buttons

\* C7 (the card never outlives the list), as claimed: the current card is
\* absent or its word is an element of vocabulary_list.
C7_CardInList ==
    \/ current_card = None
    \/ \E i \in 1..Len(vocabulary_list) : vocabulary_list[i] = current_card.word

\* C8 (frame of the view state): the word of the current card changes only
\* in a draw; its is_flipped changes only in a draw, to false, or in a flip;
\* a load, successful or not, and a run with no button pressed leave the card
\* as it is; a flip leaves vocabulary_list and the word of the card as they
\* are.
C8_ViewFrame ==
    [][LET entry(c) == IF c = None THEN None ELSE c.word
           flipped(c) == IF c = None THEN FALSE ELSE c.is_flipped
       IN  /\ (entry(current_card') # entry(current_card)) => (clicked' = "random_word")
           /\ (flipped(current_card') # flipped(current_card)) =>
                 \/ clicked' = "random_word" /\ ~flipped(current_card')
                 \/ clicked' = "flip_card"
           /\ (clicked' \in {"load_sample", "connect_sheet", "data_source"}) =>
                 (current_card' = current_card)
           /\ (clicked' = "flip_card") =>
                 /\ vocabulary_list' = vocabulary_list
                 /\ entry(current_card') = entry(current_card)
      ]_vars

\* A successful load from the sheet has run while a card lay on its back, and
\* the card still lies on its back.
C8_Witness ==
    /\ clicked = "connect_sheet"
    /\ load_ret = "True"
    /\ current_card # None
    /\ current_card.is_flipped
    /\ page.side = "back"

\* C9 (three-state machine): the card is Empty at the start; a draw leads to
\* Front from any state; a flip leads from Front to Back and from Back to
\* Front; no step leads from Front or Back to Empty; and whenever the page
\* shows a card, or the study section is rendered with a card present, the
\* side shown is the front exactly when is_flipped is false.
C9_StateMachine ==
    /\ current_card = None
    /\ [][LET state(c) == IF c = None THEN "Empty"
                          ELSE IF c.is_flipped THEN "Back" ELSE "Front"
          IN  /\ (clicked' = "random_word") => (state(current_card') = "Front")
              /\ (clicked' = "flip_card") =>
                    \/ state(current_card) = "Front" /\ state(current_card') = "Back"
                    \/ state(current_card) = "Back" /\ state(current_card') = "Front"
              /\ (state(current_card) # "Empty") => (state(current_card') # "Empty")
         ]_vars
    /\ []((page.side # "none" \/ (page.study = "study" /\ current_card # None)) =>
             /\ current_card # None
             /\ page.entry = current_card.word
             /\ page.side = IF ~current_card.is_flipped THEN "front" ELSE "back")

\* A flip has just turned a card to its back and the page shows the back.
C9_Witness ==
    /\ clicked = "flip_card"
    /\ current_card # None
    /\ current_card.is_flipped
    /\ page.side = "back"

\* C10 (gating): vocabulary_loaded implies a non-empty vocabulary_list; a
\* present card implies vocabulary_loaded; the study section never takes its
\* "no vocabulary" branch; the draw button is only offered on a non-empty
\* list; and vocabulary_loaded, once true, stays true.
C10_Gating ==
    /\ [](vocabulary_loaded => vocabulary_list # <<>>)
    /\ [](current_card # None => vocabulary_loaded)
    /\ [](page.study # "error_no_vocabulary")
    /\ []("random_word" \in page.buttons => vocabulary_list # <<>>)
    /\ [][vocabulary_loaded => vocabulary_loaded']_vars

\* After words were loaded, a load from the sheet fetched no record: the
\* session still counts as loaded and still has its words.
C10_Witness ==
    /\ vocabulary_loaded
    /\ clicked = "connect_sheet"
    /\ load_ret = "False"
    /\ df # None
    /\ df.rows = <<>>
    /\ vocabulary_list # <<>>

====
